---- MODULE Spec2Model ----
(***************************************************************************)
(* Model of main.py: the pydantic data model Procurement -> Lot -> Bid     *)
(* with the Supplier roster, and the award checks of Procurement.check().  *)
(*                                                                         *)
(* Fields that no check reads (addresses, contact persons, list prices,    *)
(* timestamps, details) are left out of the records; every field that a    *)
(* check reads or that an error message quotes is kept.                    *)
(***************************************************************************)
EXTENDS Integers, Sequences, FiniteSets, TLC

(* Bounds of the enumerated inputs. *)
MaxLots == 2
MaxBids == 2
MaxSuppliers == 2
MaxSupplierId == 2

(* Names of the mock data; the k-th lot / roster entry of an enumerated    *)
(* input carries the k-th name, so that a message identifies its subject.  *)
LotNames == <<"Stockholm north", "Stockholm south", "Stockholm east", "Stockholm west">>
SupplierNames == <<"Alltvatt", "Stad AB", "Totalt rent AB", "Rent av AB", "Cleaning House AB">>

VARIABLES pc, procurement, result

vars == <<pc, procurement, result>>

(***************************************************************************)
(* Data model                                                              *)
(***************************************************************************)

(* class Supplier: id, name, fskatt (default True), bankruptcy (default    *)
(* False).                                                                 *)
Supplier(id, name, fskatt, bankruptcy) ==
  [id |-> id, name |-> name, fskatt |-> fskatt, bankruptcy |-> bankruptcy]

(* class Bid: supplier is the id of a roster entry, winner defaults False. *)
Bid(supplier, winner) == [supplier |-> supplier, winner |-> winner]

(* class Lot: name and the ordered bids. *)
Lot(name, bids) == [name |-> name, bids |-> bids]

(* class Procurement: the ordered lots and the supplier roster.  The class *)
(* declares no validator, so construction accepts any typed lists.         *)
Procurement(lots, suppliers) == [lots |-> lots, suppliers |-> suppliers]

(* What a call of check() ends with: a normal return or the exception.     *)
(* The messages are f-strings around lot.name / supplier.name; the record  *)
(* keeps the exception class, the quoted name and which message it is.     *)
Returned == [type |-> "returned", name |-> "", reason |-> ""]
LotError(name) == [type |-> "LotError", name |-> name, reason |-> "does not have a winning bid"]
BidError(name, reason) == [type |-> "BidError", name |-> name, reason |-> reason]
NotCalled == [type |-> "not called", name |-> "", reason |-> ""]

(***************************************************************************)
(* Lot properties                                                          *)
(***************************************************************************)

(* Lot.at_least_one_winning_bid: scan the bids, True at the first winner.  *)
RECURSIVE at_least_one_winning_bid_from(_, _)
at_least_one_winning_bid_from(lot, i) ==
  IF i > Len(lot.bids) THEN FALSE
  ELSE IF lot.bids[i].winner THEN TRUE
  ELSE at_least_one_winning_bid_from(lot, i + 1)

at_least_one_winning_bid_empty_is_true(lot) ==
  Len(lot.bids) = 0 \/ at_least_one_winning_bid_from(lot, 1)

at_least_one_winning_bid(lot) == at_least_one_winning_bid_from(lot, 1)

(* Lot.get_winning_bids: a fresh list, each winning bid appended in turn.  *)
RECURSIVE get_winning_bids_loop(_, _, _)
get_winning_bids_loop(lot, i, winning_bids) ==
  IF i > Len(lot.bids) THEN winning_bids
  ELSE IF lot.bids[i].winner
       THEN get_winning_bids_loop(lot, i + 1, Append(winning_bids, lot.bids[i]))
       ELSE get_winning_bids_loop(lot, i + 1, winning_bids)

RECURSIVE get_winning_bids_prepending(_)
get_winning_bids_prepending(lot) ==
  IF Len(lot.bids) = 0 THEN << >>
  ELSE LET rest == get_winning_bids_prepending(Lot(lot.name, Tail(lot.bids)))
       IN IF Head(lot.bids).winner THEN Append(rest, Head(lot.bids)) ELSE rest

get_winning_bids(lot) == get_winning_bids_loop(lot, 1, << >>)

(***************************************************************************)
(* Procurement checks                                                      *)
(***************************************************************************)

(* The innermost loop of check_..._have_fskatt: every roster entry whose   *)
(* id equals supplier_id is examined, in roster order (there is no break). *)
RECURSIVE fskatt_scan_suppliers(_, _, _)
fskatt_scan_suppliers(self, supplier_id, k) ==
  IF k > Len(self.suppliers) THEN Returned
  ELSE IF self.suppliers[k].id = supplier_id /\ ~self.suppliers[k].fskatt
       THEN BidError(self.suppliers[k].name, "is not registered for F-skatt")
       ELSE fskatt_scan_suppliers(self, supplier_id, k + 1)

(* The middle loop: the winning bids of one lot, in their order. *)
RECURSIVE fskatt_scan_bids(_, _, _)
fskatt_scan_bids(self, winning_bids, j) ==
  IF j > Len(winning_bids) THEN Returned
  ELSE LET raised == fskatt_scan_suppliers(self, winning_bids[j].supplier, 1)
       IN IF raised # Returned THEN raised
          ELSE fskatt_scan_bids(self, winning_bids, j + 1)

(* The outer loop: the lots, in their order. *)
RECURSIVE fskatt_scan_lots(_, _)
fskatt_scan_lots(self, i) ==
  IF i > Len(self.lots) THEN Returned
  ELSE LET raised == fskatt_scan_bids(self, get_winning_bids(self.lots[i]), 1)
       IN IF raised # Returned THEN raised
          ELSE fskatt_scan_lots(self, i + 1)

RECURSIVE fskatt_first_winner_only(_, _)
fskatt_first_winner_only(self, i) ==
  IF i > Len(self.lots) THEN Returned
  ELSE LET winning_bids == get_winning_bids(self.lots[i])
           raised == IF Len(winning_bids) = 0 THEN Returned
                     ELSE fskatt_scan_suppliers(self, winning_bids[1].supplier, 1)
       IN IF raised # Returned THEN raised
          ELSE fskatt_first_winner_only(self, i + 1)

check_fskatt_of_first_winner_only(self) == fskatt_first_winner_only(self, 1)

(* Procurement.check_organization_behind_winning_bids_have_fskatt *)
check_organization_behind_winning_bids_have_fskatt(self) == fskatt_scan_lots(self, 1)

(* The same three loops of check_..._have_not_filed_for_bankruptcy. *)
RECURSIVE bankruptcy_scan_suppliers(_, _, _)
bankruptcy_scan_suppliers(self, supplier_id, k) ==
  IF k > Len(self.suppliers) THEN Returned
  ELSE IF self.suppliers[k].id = supplier_id /\ self.suppliers[k].bankruptcy
       THEN BidError(self.suppliers[k].name, "has filed for bankruptcy")
       ELSE bankruptcy_scan_suppliers(self, supplier_id, k + 1)

RECURSIVE bankruptcy_scan_bids(_, _, _)
bankruptcy_scan_bids(self, winning_bids, j) ==
  IF j > Len(winning_bids) THEN Returned
  ELSE LET raised == bankruptcy_scan_suppliers(self, winning_bids[j].supplier, 1)
       IN IF raised # Returned THEN raised
          ELSE bankruptcy_scan_bids(self, winning_bids, j + 1)

RECURSIVE bankruptcy_scan_lots(_, _)
bankruptcy_scan_lots(self, i) ==
  IF i > Len(self.lots) THEN Returned
  ELSE LET raised == bankruptcy_scan_bids(self, get_winning_bids(self.lots[i]), 1)
       IN IF raised # Returned THEN raised
          ELSE bankruptcy_scan_lots(self, i + 1)

RECURSIVE bankruptcy_inverted_scan_suppliers(_, _, _)
bankruptcy_inverted_scan_suppliers(self, supplier_id, k) ==
  IF k > Len(self.suppliers) THEN Returned
  ELSE IF self.suppliers[k].id = supplier_id /\ ~self.suppliers[k].bankruptcy
       THEN BidError(self.suppliers[k].name, "has filed for bankruptcy")
       ELSE bankruptcy_inverted_scan_suppliers(self, supplier_id, k + 1)

RECURSIVE bankruptcy_inverted_scan_bids(_, _, _)
bankruptcy_inverted_scan_bids(self, winning_bids, j) ==
  IF j > Len(winning_bids) THEN Returned
  ELSE LET raised == bankruptcy_inverted_scan_suppliers(self, winning_bids[j].supplier, 1)
       IN IF raised # Returned THEN raised
          ELSE bankruptcy_inverted_scan_bids(self, winning_bids, j + 1)

RECURSIVE bankruptcy_inverted_scan_lots(_, _)
bankruptcy_inverted_scan_lots(self, i) ==
  IF i > Len(self.lots) THEN Returned
  ELSE LET raised == bankruptcy_inverted_scan_bids(self, get_winning_bids(self.lots[i]), 1)
       IN IF raised # Returned THEN raised
          ELSE bankruptcy_inverted_scan_lots(self, i + 1)

check_bankruptcy_flag_inverted(self) == bankruptcy_inverted_scan_lots(self, 1)

RECURSIVE bankruptcy_scan_all_bids_of_lots(_, _)
bankruptcy_scan_all_bids_of_lots(self, i) ==
  IF i > Len(self.lots) THEN Returned
  ELSE LET raised == bankruptcy_scan_bids(self, self.lots[i].bids, 1)
       IN IF raised # Returned THEN raised
          ELSE bankruptcy_scan_all_bids_of_lots(self, i + 1)

check_bankruptcy_of_all_bids(self) == bankruptcy_scan_all_bids_of_lots(self, 1)

(* Procurement.check_organization_behind_winning_bids_have_not_filed_for_bankruptcy *)
check_organization_behind_winning_bids_have_not_filed_for_bankruptcy(self) ==
  bankruptcy_scan_lots(self, 1)

(* The first loop of check(): the first lot without a winning bid raises.  *)
RECURSIVE check_lots_have_winner(_, _)
check_lots_have_winner(self, i) ==
  IF i > Len(self.lots) THEN Returned
  ELSE IF ~at_least_one_winning_bid(self.lots[i])
       THEN LotError(self.lots[i].name)
       ELSE check_lots_have_winner(self, i + 1)

check_suppliers_before_lots(self) ==
  LET no_fskatt == check_organization_behind_winning_bids_have_fskatt(self)
  IN IF no_fskatt # Returned THEN no_fskatt
     ELSE LET bankrupt == check_organization_behind_winning_bids_have_not_filed_for_bankruptcy(self)
          IN IF bankrupt # Returned THEN bankrupt
             ELSE check_lots_have_winner(self, 1)

check_bankruptcy_before_fskatt(self) ==
  LET no_winner == check_lots_have_winner(self, 1)
  IN IF no_winner # Returned THEN no_winner
     ELSE LET bankrupt == check_organization_behind_winning_bids_have_not_filed_for_bankruptcy(self)
          IN IF bankrupt # Returned THEN bankrupt
             ELSE check_organization_behind_winning_bids_have_fskatt(self)

(* Procurement.check: the lot loop, then the F-skatt pass, then the        *)
(* bankruptcy pass; the first exception ends the call.                     *)
check(self) ==
  LET no_winner == check_lots_have_winner(self, 1)
  IN IF no_winner # Returned THEN no_winner
     ELSE LET no_fskatt == check_organization_behind_winning_bids_have_fskatt(self)
          IN IF no_fskatt # Returned THEN no_fskatt
             ELSE check_organization_behind_winning_bids_have_not_filed_for_bankruptcy(self)

(***************************************************************************)
(* Enumerated inputs                                                       *)
(***************************************************************************)

SupplierIds == 1..MaxSupplierId

(* Rosters of up to MaxSuppliers entries; ids may repeat or be missing. *)
Rosters ==
  UNION {{[k \in 1..n |-> Supplier(c[k].id, SupplierNames[k], c[k].fskatt, c[k].bankruptcy)] :
            c \in [1..n -> [id : SupplierIds, fskatt : BOOLEAN, bankruptcy : BOOLEAN]]} :
         n \in 0..MaxSuppliers}

BidLists ==
  UNION {{[j \in 1..n |-> Bid(c[j].supplier, c[j].winner)] :
            c \in [1..n -> [supplier : SupplierIds, winner : BOOLEAN]]} :
         n \in 0..MaxBids}

LotLists ==
  UNION {{[i \in 1..n |-> Lot(LotNames[i], c[i])] : c \in [1..n -> BidLists]} :
         n \in 0..MaxLots}

(***************************************************************************)
(* The program                                                             *)
(***************************************************************************)

Init ==
  /\ pc = "new"
  /\ procurement = Procurement(<< >>, << >>)
  /\ result = NotCalled

(* procurement = Procurement(lots=[...], suppliers=[...]) *)
procurement_construct ==
  /\ pc = "new"
  /\ \E ls \in LotLists, roster \in Rosters :
       procurement' = Procurement(ls, roster)
  /\ pc' = "constructed"
  /\ UNCHANGED result

RECURSIVE winners_kept_in_place(_)
winners_kept_in_place(bids) ==
  IF Len(bids) = 0 THEN << >>
  ELSE IF Head(bids).winner THEN <<Head(bids)>> \o winners_kept_in_place(Tail(bids))
       ELSE winners_kept_in_place(Tail(bids))

procurement_check_filtering_bids_in_place ==
  /\ pc = "constructed"
  /\ result' = check(procurement)
  /\ pc' = "checked"
  /\ procurement' = [procurement EXCEPT !.lots =
        [i \in 1..Len(procurement.lots) |->
           Lot(procurement.lots[i].name, winners_kept_in_place(procurement.lots[i].bids))]]

(* procurement.check() *)
procurement_check ==
  /\ pc = "constructed"
  /\ result' = check(procurement)
  /\ pc' = "checked"
  /\ UNCHANGED procurement

Next == procurement_construct \/ procurement_check

Spec == Init /\ [][Next]_vars

TypeOK ==
  /\ pc \in {"new", "constructed", "checked"}
  /\ result.type \in {"not called", "returned", "LotError", "BidError"}

(***************************************************************************)
(* Vocabulary of the properties, stated over the data and not over the     *)
(* loops above.                                                            *)
(***************************************************************************)

Checked == pc = "checked"

LotIdx == 1..Len(procurement.lots)
RosterIdx == 1..Len(procurement.suppliers)
BidIdx(i) == 1..Len(procurement.lots[i].bids)

WinnerIdx(i) == {j \in BidIdx(i) : procurement.lots[i].bids[j].winner}

NoWinnerLots == {i \in LotIdx : WinnerIdx(i) = {}}

(* Roster positions a bid's supplier id resolves to. *)
Resolved(i, j) ==
  {k \in RosterIdx : procurement.suppliers[k].id = procurement.lots[i].bids[j].supplier}

(* <<lot, winning bid, roster entry>> with the entry lacking F-skatt / bankrupt. *)
FskattOffences ==
  UNION {UNION {{<<i, j, k>> : k \in {r \in Resolved(i, j) : ~procurement.suppliers[r].fskatt}} :
                j \in WinnerIdx(i)} :
         i \in LotIdx}

BankruptcyOffences ==
  UNION {UNION {{<<i, j, k>> : k \in {r \in Resolved(i, j) : procurement.suppliers[r].bankruptcy}} :
                j \in WinnerIdx(i)} :
         i \in LotIdx}

RECURSIVE LexLess(_, _)
LexLess(a, b) ==
  IF Len(a) = 0 THEN FALSE
  ELSE Head(a) < Head(b) \/ (Head(a) = Head(b) /\ LexLess(Tail(a), Tail(b)))

LexMin(S) == CHOOSE t \in S : \A u \in S : u = t \/ LexLess(t, u)

MinOf(S) == CHOOSE x \in S : \A y \in S : x <= y

(***************************************************************************)
(* C1                                                                      *)
(***************************************************************************)

(* C1 as stated: after check(), every lot without a winning bid is named   *)
(* by the LotError raised.                                                 *)
C1_EveryLotWithoutWinnerNamed ==
  Checked =>
    \A i \in NoWinnerLots :
      result.type = "LotError" /\ result.name = procurement.lots[i].name

(* C1 amended: when some lot has no winning bid, check() raises a LotError *)
(* naming the first such lot in lots order.                                *)
C1_FirstLotWithoutWinnerNamed ==
  (Checked /\ NoWinnerLots # {}) =>
    /\ result.type = "LotError"
    /\ result.name = procurement.lots[MinOf(NoWinnerLots)].name

C1_Witness ==
  /\ Checked
  /\ Cardinality(NoWinnerLots) >= 2
  /\ result = LotError(LotNames[1])

(***************************************************************************)
(* C2                                                                      *)
(***************************************************************************)

(* C2 as stated: after check(), every winning bid resolving to a supplier  *)
(* without F-skatt has that supplier named by the BidError raised.         *)
C2_EveryWinnerWithoutFskattNamed ==
  Checked =>
    \A t \in FskattOffences :
      result.type = "BidError" /\ result.name = procurement.suppliers[t[3]].name

(* C2 amended: when every lot has a winning bid and some winning bid       *)
(* resolves to a supplier without F-skatt, check() raises a BidError       *)
(* naming the supplier of the first such bid (lots order, bid order,       *)
(* roster order).                                                          *)
C2_FirstWinnerWithoutFskattNamed ==
  (Checked /\ NoWinnerLots = {} /\ FskattOffences # {}) =>
    /\ result.type = "BidError"
    /\ result.name = procurement.suppliers[LexMin(FskattOffences)[3]].name

C2_Witness ==
  /\ Checked
  /\ NoWinnerLots = {}
  /\ \E t, u \in FskattOffences : t[3] # u[3] /\ t[2] # u[2]
  /\ result.type = "BidError"
  /\ result.reason = "is not registered for F-skatt"

(***************************************************************************)
(* C3                                                                      *)
(***************************************************************************)

(* C3 as stated: after check(), every winning bid resolving to a bankrupt  *)
(* supplier has that supplier named by the BidError raised.                *)
C3_EveryBankruptWinnerNamed ==
  Checked =>
    \A t \in BankruptcyOffences :
      result.type = "BidError" /\ result.name = procurement.suppliers[t[3]].name

(* C3 amended: when every lot has a winning bid, no winning bid resolves   *)
(* to a supplier without F-skatt and some winning bid resolves to a        *)
(* bankrupt supplier, check() raises a BidError naming the supplier of the *)
(* first such bid (lots order, bid order, roster order).                   *)
C3_FirstBankruptWinnerNamed ==
  (Checked /\ NoWinnerLots = {} /\ FskattOffences = {} /\ BankruptcyOffences # {}) =>
    /\ result.type = "BidError"
    /\ result.name = procurement.suppliers[LexMin(BankruptcyOffences)[3]].name

C3_Witness ==
  /\ Checked
  /\ NoWinnerLots = {}
  /\ FskattOffences = {}
  /\ \E t, u \in BankruptcyOffences : t[3] # u[3]
  /\ result.type = "BidError"
  /\ result.reason = "has filed for bankruptcy"

(***************************************************************************)
(* C4                                                                      *)
(***************************************************************************)

UnresolvedWinners ==
  UNION {{<<i, j>> : j \in {w \in WinnerIdx(i) : Resolved(i, w) = {}}} : i \in LotIdx}

(* C4 as stated: after check() on a procurement with a winning bid whose   *)
(* supplier id is in no roster entry, the call has failed with an error    *)
(* that is neither a LotError nor a BidError; it has not returned.         *)
C4_UnresolvedWinnerIsIntegrityError ==
  (Checked /\ UnresolvedWinners # {}) =>
    result.type \notin {"returned", "LotError", "BidError"}

(***************************************************************************)
(* C5                                                                      *)
(***************************************************************************)

(* C5: when some lot has no winning bid, check() raises a LotError, never  *)
(* a BidError, whatever the flags of the winners of the other lots.        *)
C5_LotErrorBeforeSupplierLookups ==
  (Checked /\ NoWinnerLots # {}) => result.type = "LotError"

C5_Witness ==
  /\ Checked
  /\ \E i \in NoWinnerLots :
       /\ \E t \in FskattOffences : t[1] < i
       /\ \E t \in BankruptcyOffences : t[1] < i
  /\ result.type = "LotError"

(***************************************************************************)
(* C6                                                                      *)
(***************************************************************************)

(* C6: a call of check(), returning or raising, leaves the lots, their     *)
(* bids and the roster as they were.                                       *)
C6_CheckMutatesNothing ==
  [][(pc = "constructed" /\ pc' = "checked") => procurement' = procurement]_vars

C6_Witness ==
  /\ Checked
  /\ result.type = "BidError"
  /\ \E i \in LotIdx : WinnerIdx(i) # {} /\ WinnerIdx(i) # BidIdx(i)
  /\ \E k \in RosterIdx : procurement.suppliers[k].bankruptcy

(***************************************************************************)
(* C7                                                                      *)
(***************************************************************************)

(* C7 as stated: a constructed Procurement holds each Supplier.id at most  *)
(* once in its roster.                                                     *)
C7_RosterIdsUnique ==
  (pc # "new") =>
    \A k1, k2 \in RosterIdx :
      procurement.suppliers[k1].id = procurement.suppliers[k2].id => k1 = k2

(***************************************************************************)
(* C8                                                                      *)
(***************************************************************************)

(* w is bids restricted to its winners: some strictly increasing map of    *)
(* the positions of w onto the winning positions of bids carries each      *)
(* element of w to the bid at that position.                               *)
IsWinnersInOrder(w, i) ==
  \E f \in [1..Len(w) -> BidIdx(i)] :
    /\ \A m, n \in 1..Len(w) : m < n => f[m] < f[n]
    /\ {f[n] : n \in 1..Len(w)} = WinnerIdx(i)
    /\ \A n \in 1..Len(w) : w[n] = procurement.lots[i].bids[f[n]]

(* C8: for every lot, get_winning_bids is exactly the winning bids, each   *)
(* once, in the order of lot.bids, and at_least_one_winning_bid is true    *)
(* iff that list is non-empty.                                             *)
C8_WinningBidsAreTheWinnersInOrder ==
  \A i \in LotIdx :
    /\ IsWinnersInOrder(get_winning_bids(procurement.lots[i]), i)
    /\ at_least_one_winning_bid(procurement.lots[i])
         <=> (Len(get_winning_bids(procurement.lots[i])) > 0)

C8_Witness ==
  /\ Checked
  /\ \E i \in LotIdx :
       /\ Cardinality(WinnerIdx(i)) >= 2
       /\ \E j1, j2 \in WinnerIdx(i) :
            procurement.lots[i].bids[j1] # procurement.lots[i].bids[j2]
  /\ \E i \in LotIdx : WinnerIdx(i) # {} /\ 1 \notin WinnerIdx(i)

(***************************************************************************)
(* C9                                                                      *)
(***************************************************************************)

AllBidsResolveUniquely ==
  \A i \in LotIdx : \A j \in BidIdx(i) : Cardinality(Resolved(i, j)) = 1

(* C9: when every bid's supplier id matches exactly one roster entry,      *)
(* check() returns normally iff every lot has a winning bid and the        *)
(* supplier of every winning bid has F-skatt and is not bankrupt.          *)
C9_ReturnsIffAllWinnersEligible ==
  (Checked /\ AllBidsResolveUniquely) =>
    ((result = Returned) <=>
       /\ \A i \in LotIdx : \E j \in BidIdx(i) : procurement.lots[i].bids[j].winner
       /\ \A i \in LotIdx : \A j \in WinnerIdx(i) : \A k \in Resolved(i, j) :
            procurement.suppliers[k].fskatt /\ ~procurement.suppliers[k].bankruptcy)

C9_Witness ==
  /\ Checked
  /\ AllBidsResolveUniquely
  /\ result = Returned
  /\ \E i \in LotIdx : \E j \in BidIdx(i) \ WinnerIdx(i) : \E k \in Resolved(i, j) :
       procurement.suppliers[k].bankruptcy /\ ~procurement.suppliers[k].fskatt

(***************************************************************************)
(* C10                                                                     *)
(***************************************************************************)

OffencesIn(i) == {t \in FskattOffences \cup BankruptcyOffences : t[1] = i}

ViolatingLots == {i \in LotIdx : i \in NoWinnerLots \/ OffencesIn(i) # {}}

(* C10 as stated: the error raised belongs to the earliest lot with any    *)
(* violation and, within it, to its earliest offending winning bid.        *)
C10_ErrorOfEarliestViolatingLot ==
  (Checked /\ ViolatingLots # {}) =>
    LET i == MinOf(ViolatingLots)
    IN IF i \in NoWinnerLots
       THEN result = LotError(procurement.lots[i].name)
       ELSE /\ result.type = "BidError"
            /\ \E t \in OffencesIn(i) :
                 /\ t[2] = MinOf({u[2] : u \in OffencesIn(i)})
                 /\ result.name = procurement.suppliers[t[3]].name

(* Pass 1 is the award-existence loop, pass 2 the F-skatt loops, pass 3    *)
(* the bankruptcy loops.                                                   *)
Violations ==
  {<<1, i, 0, 0>> : i \in NoWinnerLots}
    \cup {<<2, t[1], t[2], t[3]>> : t \in FskattOffences}
    \cup {<<3, t[1], t[2], t[3]>> : t \in BankruptcyOffences}

ErrorOf(v) ==
  IF v[1] = 1 THEN LotError(procurement.lots[v[2]].name)
  ELSE IF v[1] = 2
       THEN BidError(procurement.suppliers[v[4]].name, "is not registered for F-skatt")
       ELSE BidError(procurement.suppliers[v[4]].name, "has filed for bankruptcy")

(* C10 amended: check() makes three passes, each over all lots in lots     *)
(* order (winning bids in bid order, roster in roster order): award        *)
(* existence, then F-skatt, then bankruptcy.  The error raised is the      *)
(* first violation of the first pass that has one.                         *)
C10_ErrorOfEarliestPassThenLotThenBid ==
  (Checked /\ Violations # {}) => result = ErrorOf(LexMin(Violations))

C10_Witness ==
  /\ Checked
  /\ \E v, w \in Violations : v[1] = 2 /\ w[1] = 3 /\ LexLess(Tail(w), Tail(v))
  /\ NoWinnerLots = {}
  /\ result.reason = "is not registered for F-skatt"

====
